---- MODULE Spec2Model ----
(***************************************************************************)
(* Page replacement policy evaluators of policies.cpp: PRP_FIFO, PRP_OPT,  *)
(* PRP_RAND, PRP_LRU and PRP_CLOCK.  One behaviour is one call of one      *)
(* evaluator on a workload and a memory size; one step is one iteration of *)
(* the evaluator's loop over the workload, or its return.                  *)
(*                                                                         *)
(* C++ containers are 0-based, TLA+ sequences 1-based: index variables     *)
(* (i, cachedPagesHead, clockHand) keep the 0-based value of the code and   *)
(* a sequence is read at index + 1.                                        *)
(***************************************************************************)
EXTENDS Integers, Sequences, FiniteSets, TLC

\* ---- bounds of the model ----
MaxLen == 5
MaxMem == 3
MaxPage == 2

\* ---- program constants ----
INVALID_PAGE == -1

Pages == INVALID_PAGE..MaxPage
Workloads == UNION {[1..n -> Pages] : n \in 0..MaxLen}
Policies == {"FIFO", "OPT", "RAND", "LRU", "CLOCK"}

VARIABLES
    workload,           \* const vector<int>& workload
    memsize,            \* unsigned int memsize
    policy,             \* the evaluator that was called
    status,             \* "running", "returned", "out_of_range" (exception), "fault" (undefined behaviour ended the process)
    i,                  \* number of accesses processed = index of the next access (i / time / range-for position)
    hits,               \* hits
    cachedPages,        \* PRP_FIFO: vector<int> cachedPages
    cachedPagesHead,    \* PRP_FIFO: cachedPagesHead
    pages_in_mem,       \* PRP_OPT: unordered_set<int> pages_in_mem
    rand_pages_in_mem,  \* PRP_RAND: vector<int> pages_in_mem
    cache,              \* PRP_LRU: unordered_map<int, unsigned> cache, as a set of entries [first, second]
    clockCache,         \* PRP_CLOCK: vector<pair<int,bool>> cache
    clockHand           \* PRP_CLOCK: index the iterator clockHand was left at by the last sweep, -1 before any sweep

vars == <<workload, memsize, policy, status, i, hits, cachedPages, cachedPagesHead,
          pages_in_mem, rand_pages_in_mem, cache, clockCache, clockHand>>

\* ---- helpers ----
\* std::count(begin, end, x)
Count(s, x) == Cardinality({k \in DOMAIN s : s[k] = x})

Range(s) == {s[k] : k \in DOMAIN s}

Min(S) == CHOOSE x \in S : \A y \in S : x <= y

\* ---------------------------------------------------------------------
\* PRP_FIFO
\* ---------------------------------------------------------------------
\* FIFO_iter with the hit counted as hits += std::count(...).
FIFO_iter_addCount(s, access) ==
    IF Count(s.cachedPages, access) > 0
    THEN {[s EXCEPT !.hits = @ + Count(s.cachedPages, access)]}
    ELSE IF s.cachedPagesHead >= Len(s.cachedPages)
         THEN {[s EXCEPT !.status = "out_of_range"]}
         ELSE {[s EXCEPT !.cachedPages[s.cachedPagesHead + 1] = access,
                         !.cachedPagesHead = (s.cachedPagesHead + 1) % Len(s.cachedPages)]}

\* FIFO_iter without the advance of the head after a miss.
FIFO_iter_noAdvance(s, access) ==
    IF Count(s.cachedPages, access) > 0
    THEN {[s EXCEPT !.hits = @ + 1]}
    ELSE IF s.cachedPagesHead >= Len(s.cachedPages)
         THEN {[s EXCEPT !.status = "out_of_range"]}
         ELSE {[s EXCEPT !.cachedPages[s.cachedPagesHead + 1] = access]}

\* FIFO_iter with a hit that moves the head on, as a miss does.
FIFO_iter_hitAdvances(s, access) ==
    IF Count(s.cachedPages, access) > 0
    THEN {[s EXCEPT !.hits = @ + 1,
                    !.cachedPagesHead = (s.cachedPagesHead + 1) % Len(s.cachedPages)]}
    ELSE IF s.cachedPagesHead >= Len(s.cachedPages)
         THEN {[s EXCEPT !.status = "out_of_range"]}
         ELSE {[s EXCEPT !.cachedPages[s.cachedPagesHead + 1] = access,
                         !.cachedPagesHead = (s.cachedPagesHead + 1) % Len(s.cachedPages)]}

\* One iteration of the loop of PRP_FIFO on the locals s.
FIFO_iter(s, access) ==
    IF Count(s.cachedPages, access) > 0
    THEN {[s EXCEPT !.hits = @ + 1]}
    ELSE IF s.cachedPagesHead >= Len(s.cachedPages)
         THEN {[s EXCEPT !.status = "out_of_range"]}   \* vector::at throws
         ELSE {[s EXCEPT !.cachedPages[s.cachedPagesHead + 1] = access,
                         !.cachedPagesHead = (s.cachedPagesHead + 1) % Len(s.cachedPages)]}

FIFO_init(m) ==
    [cachedPages |-> [k \in 1..m |-> INVALID_PAGE], cachedPagesHead |-> 0,
     hits |-> 0, status |-> "running"]

\* ---------------------------------------------------------------------
\* PRP_OPT
\* ---------------------------------------------------------------------
\* replacement_canidiates.count(workload[j] > 0): the comparison binds first,
\* so the set is asked for the key 1 (true) or 0 (false).
OPT_gate(cands, page) == (IF page > 0 THEN 1 ELSE 0) \in cands

\* The narrowing loop: for (; j < workload.size() && candidates.size() > 1; j++)
RECURSIVE OPT_narrow(_, _, _)
OPT_narrow(cands, w, j) ==
    IF j < Len(w) /\ Cardinality(cands) > 1
    THEN OPT_narrow(IF OPT_gate(cands, w[j + 1]) THEN cands \ {w[j + 1]} ELSE cands, w, j + 1)
    ELSE cands

\* *(replacement_canidiates.begin()): the first element in the iteration
\* order of the unordered_set, which the standard leaves unspecified.
OPT_begin(cands) == cands

\* OPT_hasRoom with <= for <.
OPT_hasRoom_offByOne(pages, m) == Cardinality(pages) <= m

\* pages_in_mem.size() < memsize
OPT_hasRoom(pages, m) == Cardinality(pages) < m

OPT_iter(s, w, k, m) ==
    LET access == w[k + 1] IN
    IF access \in s.pages_in_mem
    THEN {[s EXCEPT !.hits = @ + 1]}
    ELSE IF OPT_hasRoom(s.pages_in_mem, m)
         THEN {[s EXCEPT !.pages_in_mem = @ \cup {access}]}
         ELSE LET cands == OPT_narrow(s.pages_in_mem, w, k) IN
              IF cands = {}
              THEN \* begin() == end() is dereferenced: undefined behaviour.
                   \* Either the process dies, or some value is read, erased
                   \* from the (empty) set, and the access is inserted.
                   {[s EXCEPT !.status = "fault"],
                    [s EXCEPT !.pages_in_mem = {access}]}
              ELSE {[s EXCEPT !.pages_in_mem = (@ \ {v}) \cup {access}] : v \in OPT_begin(cands)}

OPT_init ==
    [pages_in_mem |-> {}, hits |-> 0, status |-> "running"]

\* ---------------------------------------------------------------------
\* PRP_RAND
\* ---------------------------------------------------------------------
\* RAND_gen with the upper bound one too far: gen(0, n).
RAND_gen_upToSize(n) == 0..n

\* gen(random_engine) with gen = uniform_int_distribution<int>(0, n - 1)
RAND_gen(n) == 0..(n - 1)

RAND_iter(s, access, m) ==
    LET p == s.pages_in_mem IN
    IF \E j \in 1..Len(p) : p[j] = access
    THEN {[s EXCEPT !.hits = @ + 1]}
    ELSE IF Len(p) < m
         THEN {[s EXCEPT !.pages_in_mem = Append(@, access)]}
         ELSE IF Len(p) = 0
              THEN \* uniform_int_distribution(0, -1) and a write through
                   \* operator[] of an empty vector: undefined behaviour.
                   {[s EXCEPT !.status = "fault"], s}
              ELSE {[s EXCEPT !.pages_in_mem[index + 1] = access] : index \in RAND_gen(Len(p))}

RAND_init ==
    [pages_in_mem |-> <<>>, hits |-> 0, status |-> "running"]

\* ---------------------------------------------------------------------
\* PRP_LRU
\* ---------------------------------------------------------------------
\* LRU_oldestEntry with the comparison reversed (newest entry).
LRU_oldestEntry_newest(c) == {e \in c : \A f \in c : ~(f.second > e.second)}

\* The scan for oldestEntry: an entry no other entry is strictly older than
\* (the first such entry in the map's unspecified iteration order).
LRU_oldestEntry(c) == {e \in c : \A f \in c : ~(f.second < e.second)}

\* while (cache.size() > memsize) { ...; cache.erase(oldestEntry); }
RECURSIVE LRU_evict(_, _)
LRU_evict(c, m) ==
    IF Cardinality(c) > m
    THEN UNION {LRU_evict(c \ {e}, m) : e \in LRU_oldestEntry(c)}
    ELSE {c}

\* LRU_iter with a hit that does not update the timestamp.
LRU_iter_noTouch(s, access, time, m) ==
    IF ~\E e \in s.cache : e.first = access
    THEN {[s EXCEPT !.cache = c] :
              c \in LRU_evict(s.cache \cup {[first |-> access, second |-> time]}, m)}
    ELSE {[s EXCEPT !.hits = @ + 1]}

LRU_iter(s, access, time, m) ==
    IF ~\E e \in s.cache : e.first = access
    THEN {[s EXCEPT !.cache = c] :
              c \in LRU_evict(s.cache \cup {[first |-> access, second |-> time]}, m)}
    ELSE {[s EXCEPT !.hits = @ + 1,
                    !.cache = {IF e.first = access THEN [e EXCEPT !.second = time] ELSE e : e \in @}]}

LRU_init ==
    [cache |-> {}, hits |-> 0, status |-> "running"]

\* ---------------------------------------------------------------------
\* PRP_CLOCK
\* ---------------------------------------------------------------------
\* Where the for loop over clockHand stops: the 0-based index of the first
\* entry whose use bit is false, cache.size() (= end()) when there is none.
CLOCK_stop(c) ==
    LET unused == {k \in 1..Len(c) : ~c[k].second} IN
    IF unused = {} THEN Len(c) ELSE Min(unused) - 1

\* The select-a-victim block: use bits before the stop are cleared, end()
\* loops back to begin(), the victim is overwritten.
CLOCK_replace(c, access) ==
    LET stop == CLOCK_stop(c)
        hand == IF stop = Len(c) THEN 0 ELSE stop
        swept == [k \in 1..Len(c) |-> IF k <= stop THEN [c[k] EXCEPT !.second = FALSE] ELSE c[k]]
    IN [cache |-> [swept EXCEPT ![hand + 1] = [first |-> access, second |-> TRUE]],
        clockHand |-> hand]

\* CLOCK_iter with a hit that leaves the use bit as it is.
CLOCK_iter_hitNoUse(s, access, m) ==
    LET c == s.cache
        found == {k \in 1..Len(c) : c[k].first = access} IN
    IF found # {}
    THEN {[s EXCEPT !.hits = @ + 1]}
    ELSE IF Len(c) < m
         THEN {[s EXCEPT !.cache = Append(@, [first |-> access, second |-> TRUE])]}
         ELSE IF Len(c) = 0
              THEN {[s EXCEPT !.status = "fault"], [s EXCEPT !.clockHand = 0]}
              ELSE LET r == CLOCK_replace(c, access) IN
                   {[s EXCEPT !.cache = r.cache, !.clockHand = r.clockHand]}

CLOCK_iter(s, access, m) ==
    LET c == s.cache
        found == {k \in 1..Len(c) : c[k].first = access} IN
    IF found # {}
    THEN {[s EXCEPT !.hits = @ + 1, !.cache[Min(found)].second = TRUE]}
    ELSE IF Len(c) < m
         THEN {[s EXCEPT !.cache = Append(@, [first |-> access, second |-> TRUE])]}
         ELSE IF Len(c) = 0
              THEN \* clockHand == cache.end() of an empty vector is written
                   \* through: undefined behaviour.
                   {[s EXCEPT !.status = "fault"], [s EXCEPT !.clockHand = 0]}
              ELSE LET r == CLOCK_replace(c, access) IN
                   {[s EXCEPT !.cache = r.cache, !.clockHand = r.clockHand]}

CLOCK_init ==
    [cache |-> <<>>, clockHand |-> -1, hits |-> 0, status |-> "running"]

\* ---------------------------------------------------------------------
\* The state machine
\* ---------------------------------------------------------------------
Init ==
    /\ workload \in Workloads
    /\ memsize \in 0..MaxMem
    /\ policy \in Policies
    /\ status = "running"
    /\ i = 0
    /\ hits = 0
    /\ cachedPages = IF policy = "FIFO" THEN FIFO_init(memsize).cachedPages ELSE <<>>
    /\ cachedPagesHead = 0
    /\ pages_in_mem = {}
    /\ rand_pages_in_mem = <<>>
    /\ cache = {}
    /\ clockCache = <<>>
    /\ clockHand = -1

Running(p) == policy = p /\ status = "running" /\ i < Len(workload)

\* A faulting or throwing iteration does not complete the access.
Advance(r) == i' = IF r.status = "running" THEN i + 1 ELSE i

PRP_FIFO ==
    /\ Running("FIFO")
    /\ \E r \in FIFO_iter([cachedPages |-> cachedPages, cachedPagesHead |-> cachedPagesHead,
                           hits |-> hits, status |-> status], workload[i + 1]) :
          /\ cachedPages' = r.cachedPages
          /\ cachedPagesHead' = r.cachedPagesHead
          /\ hits' = r.hits
          /\ status' = r.status
          /\ Advance(r)
    /\ UNCHANGED <<workload, memsize, policy, pages_in_mem, rand_pages_in_mem, cache,
                   clockCache, clockHand>>

PRP_OPT ==
    /\ Running("OPT")
    /\ \E r \in OPT_iter([pages_in_mem |-> pages_in_mem, hits |-> hits, status |-> status],
                         workload, i, memsize) :
          /\ pages_in_mem' = r.pages_in_mem
          /\ hits' = r.hits
          /\ status' = r.status
          /\ Advance(r)
    /\ UNCHANGED <<workload, memsize, policy, cachedPages, cachedPagesHead,
                   rand_pages_in_mem, cache, clockCache, clockHand>>

PRP_RAND ==
    /\ Running("RAND")
    /\ \E r \in RAND_iter([pages_in_mem |-> rand_pages_in_mem, hits |-> hits, status |-> status],
                          workload[i + 1], memsize) :
          /\ rand_pages_in_mem' = r.pages_in_mem
          /\ hits' = r.hits
          /\ status' = r.status
          /\ Advance(r)
    /\ UNCHANGED <<workload, memsize, policy, cachedPages, cachedPagesHead,
                   pages_in_mem, cache, clockCache, clockHand>>

PRP_LRU ==
    /\ Running("LRU")
    /\ \E r \in LRU_iter([cache |-> cache, hits |-> hits, status |-> status],
                         workload[i + 1], i, memsize) :
          /\ cache' = r.cache
          /\ hits' = r.hits
          /\ status' = r.status
          /\ Advance(r)
    /\ UNCHANGED <<workload, memsize, policy, cachedPages, cachedPagesHead,
                   pages_in_mem, rand_pages_in_mem, clockCache, clockHand>>

PRP_CLOCK ==
    /\ Running("CLOCK")
    /\ \E r \in CLOCK_iter([cache |-> clockCache, clockHand |-> clockHand, hits |-> hits,
                            status |-> status], workload[i + 1], memsize) :
          /\ clockCache' = r.cache
          /\ clockHand' = r.clockHand
          /\ hits' = r.hits
          /\ status' = r.status
          /\ Advance(r)
    /\ UNCHANGED <<workload, memsize, policy, cachedPages, cachedPagesHead,
                   pages_in_mem, rand_pages_in_mem, cache>>

\* Return with an empty workload rejected as an invalid argument.
Return_emptyIsError ==
    /\ status = "running"
    /\ i = Len(workload)
    /\ status' = IF Len(workload) = 0 THEN "invalid_argument" ELSE "returned"
    /\ UNCHANGED <<workload, memsize, policy, i, hits, cachedPages, cachedPagesHead,
                   pages_in_mem, rand_pages_in_mem, cache, clockCache, clockHand>>

\* return hits;
Return ==
    /\ status = "running"
    /\ i = Len(workload)
    /\ status' = "returned"
    /\ UNCHANGED <<workload, memsize, policy, i, hits, cachedPages, cachedPagesHead,
                   pages_in_mem, rand_pages_in_mem, cache, clockCache, clockHand>>

Next == PRP_FIFO \/ PRP_OPT \/ PRP_RAND \/ PRP_LRU \/ PRP_CLOCK \/ Return

Spec == Init /\ [][Next]_vars

\* ---------------------------------------------------------------------
\* The reference scenarios: the same state machine started on the
\* workloads that are traced by hand for FIFO, Optimal and LRU.
\* ---------------------------------------------------------------------
FifoScenario == <<1, 2, 3, 1, 2, 3>>
OptScenario == <<1, 2, 3, 1, 2, 4, 1, 2, 3>>
LruScenario == <<1, 2, 3, 2, 1, 4, 5, 1>>

InitScenarios ==
    /\ workload \in {FifoScenario, OptScenario, LruScenario}
    /\ memsize \in 0..MaxMem
    /\ policy \in Policies
    /\ status = "running"
    /\ i = 0
    /\ hits = 0
    /\ cachedPages = IF policy = "FIFO" THEN FIFO_init(memsize).cachedPages ELSE <<>>
    /\ cachedPagesHead = 0
    /\ pages_in_mem = {}
    /\ rand_pages_in_mem = <<>>
    /\ cache = {}
    /\ clockCache = <<>>
    /\ clockHand = -1

SpecScenarios == InitScenarios /\ [][Next]_vars

\* ---------------------------------------------------------------------
\* Calls whose capacity argument is a negative int.  The parameter is
\* unsigned int, so the argument is converted at the call: c becomes
\* 2^32 + c, which is above INT_MAX.  The integers of the checker end at
\* INT_MAX, so the converted value is kept as INT_MAX; the evaluators only
\* compare memsize with container sizes, which are far below both.
\* ---------------------------------------------------------------------
INT_MAX == 2147483647

\* int -> unsigned int
ToUnsigned(c) == IF c >= 0 THEN c ELSE INT_MAX

NegativeCapacities == {-2, -1}

\* vector<int> cachedPages(memsize, INVALID_PAGE).  The head advances once
\* per miss, so of a vector longer than the workload only the first
\* Len(w) + 1 slots are kept; the last of them stands for every slot that
\* no access can reach.
FIFO_alloc(m, w) ==
    [k \in 1..(IF m > Len(w) THEN Len(w) + 1 ELSE m) |-> INVALID_PAGE]

InitNegative ==
    /\ workload \in Workloads
    /\ memsize \in {ToUnsigned(c) : c \in NegativeCapacities}
    /\ policy \in Policies
    /\ i = 0
    /\ hits = 0
    \* PRP_FIFO asks for 2^32 + c ints: the allocation throws std::bad_alloc
    \* or succeeds, depending on the memory of the machine.
    /\ \/ status = "running"
          /\ cachedPages = IF policy = "FIFO" THEN FIFO_alloc(memsize, workload) ELSE <<>>
       \/ policy = "FIFO" /\ status = "bad_alloc" /\ cachedPages = <<>>
    /\ cachedPagesHead = 0
    /\ pages_in_mem = {}
    /\ rand_pages_in_mem = <<>>
    /\ cache = {}
    /\ clockCache = <<>>
    /\ clockHand = -1

SpecNegative == InitNegative /\ [][Next]_vars

\* ---------------------------------------------------------------------
\* A whole call as a function of its arguments: the set of outcomes of
\* running the evaluator's loop over the workload.
\* ---------------------------------------------------------------------
PRP_init(p, m) ==
    CASE p = "FIFO" -> FIFO_init(m)
      [] p = "OPT" -> OPT_init
      [] p = "RAND" -> RAND_init
      [] p = "LRU" -> LRU_init
      [] p = "CLOCK" -> CLOCK_init

PRP_iter(p, s, w, k, m) ==
    CASE p = "FIFO" -> FIFO_iter(s, w[k + 1])
      [] p = "OPT" -> OPT_iter(s, w, k, m)
      [] p = "RAND" -> RAND_iter(s, w[k + 1], m)
      [] p = "LRU" -> LRU_iter(s, w[k + 1], k, m)
      [] p = "CLOCK" -> CLOCK_iter(s, w[k + 1], m)

RECURSIVE PRP_loop(_, _, _, _, _)
PRP_loop(p, S, w, k, m) ==
    IF k = Len(w)
    THEN S
    ELSE PRP_loop(p, UNION {IF s.status = "running" THEN PRP_iter(p, s, w, k, m) ELSE {s} : s \in S},
                  w, k + 1, m)

\* The hit counts the call PRP_p(w, m) can return.
PRP_returns(p, w, m) ==
    {s.hits : s \in {t \in PRP_loop(p, {PRP_init(p, m)}, w, 0, m) : t.status = "running"}}

\* ---------------------------------------------------------------------
\* Vocabulary of the properties
\* ---------------------------------------------------------------------
Max(S) == CHOOSE x \in S : \A y \in S : y <= x

\* The pages of the first k accesses.
Seen(w, k) == {w[n] : n \in 1..k}

Distinct(w) == Cardinality(Range(w))

Faulted == status \in {"out_of_range", "fault"}

\* The number of resident pages of the running policy.
ResidentCount ==
    CASE policy = "FIFO" -> Cardinality({k \in DOMAIN cachedPages : cachedPages[k] # INVALID_PAGE})
      [] policy = "OPT" -> Cardinality(pages_in_mem)
      [] policy = "RAND" -> Len(rand_pages_in_mem)
      [] policy = "LRU" -> Cardinality(cache)
      [] policy = "CLOCK" -> Len(clockCache)

\* The access the next iteration processes (only where i < Len(workload)).
Access == workload[i + 1]

\* An iteration completed: the step processed one access.
Processed == status' = "running" /\ i' = i + 1

\* ---------------------------------------------------------------------
\* C1: with memsize 0 and a non-empty workload every policy completes
\* normally with 0 hits: no exception, no fault, nothing ever resident.
\* ---------------------------------------------------------------------
C1_ZeroCapacity ==
    (memsize = 0 /\ Len(workload) > 0) => (~Faulted /\ hits = 0 /\ ResidentCount = 0)

\* ---------------------------------------------------------------------
\* C2: when memsize >= the number of distinct pages of the workload, the
\* first occurrence of a page is a miss and every later one a hit: after i
\* accesses hits = i - (distinct pages among them), and the call returns
\* Len(workload) - Distinct(workload).
\* ---------------------------------------------------------------------
C2_NoPressure ==
    (memsize >= Distinct(workload))
        => (~Faulted /\ hits = i - Cardinality(Seen(workload, i)))

\* ---------------------------------------------------------------------
\* C3: PRP_OPT, on a miss with a full resident set at time i (memsize >= 1),
\* evicts exactly one resident page, and no resident page is used again
\* later than it (a page that never recurs counts as latest).
\* ---------------------------------------------------------------------
\* Index (1-based) of the next occurrence of page p after time k; Len(w) + 1
\* when p does not recur.
NextUse(w, k, p) ==
    LET occ == {n \in (k + 2)..Len(w) : w[n] = p} IN
    IF occ = {} THEN Len(w) + 1 ELSE Min(occ)

Furthest(resident, w, k) ==
    {p \in resident : \A q \in resident : NextUse(w, k, q) <= NextUse(w, k, p)}

OptEviction ==
    /\ policy = "OPT" /\ memsize >= 1 /\ status = "running" /\ i < Len(workload)
    /\ Access \notin pages_in_mem
    /\ Cardinality(pages_in_mem) >= memsize
    /\ Processed

C3_OptEvictsFurthest ==
    [][OptEviction =>
          /\ Cardinality(pages_in_mem \ pages_in_mem') = 1
          /\ (pages_in_mem \ pages_in_mem') \subseteq Furthest(pages_in_mem, workload, i)]_vars

\* ---------------------------------------------------------------------
\* C4 (as stated): PRP_OPT on [1,2,3,1,2,4,1,2,3] with memsize 2 returns 3.
\* ---------------------------------------------------------------------
OptScenarioReturned ==
    policy = "OPT" /\ workload = OptScenario /\ memsize = 2 /\ status = "returned"

C4_OptScenarioThreeHits == OptScenarioReturned => hits = 3

\* C4 (amended): PRP_OPT on [1,2,3,1,2,4,1,2,3] with memsize 2 returns 2
\* hits (the accesses at times 3 and 6, both to page 1).
C4_OptScenarioTwoHits == OptScenarioReturned => hits = 2

C4_Witness == OptScenarioReturned /\ hits = 2

\* ---------------------------------------------------------------------
\* C5: for memsize >= 1 the hit count PRP_OPT returns is >= the hit count
\* PRP_FIFO, PRP_LRU, PRP_CLOCK and PRP_RAND (under any random choices)
\* return on the same workload and memsize.
\* ---------------------------------------------------------------------
C5_OptUpperBound ==
    (policy = "OPT" /\ status = "returned" /\ memsize >= 1)
        => \A p \in {"FIFO", "LRU", "CLOCK", "RAND"} :
              \A h \in PRP_returns(p, workload, memsize) : hits >= h

\* ---------------------------------------------------------------------
\* C6: PRP_CLOCK keeps a hand across misses: on a miss with a full cache
\* the sweep starts at the hand left by the previous eviction (0 at first),
\* clears the use bits it passes, takes the first entry with a false use
\* bit (the start after a full wrap) and leaves the hand one past the
\* victim, modulo the capacity.
\* ---------------------------------------------------------------------
\* The sweep from position hand (0-based) over the circular sequence c:
\* steps is the number of entries passed before the victim.
HandSweep(c, hand, access) ==
    LET n == Len(c)
        at(d) == ((hand + d) % n) + 1
        free == {d \in 0..(n - 1) : ~c[at(d)].second}
        steps == IF free = {} THEN n ELSE Min(free)
        victim == (hand + steps) % n
        passed == {at(d) : d \in 0..(steps - 1)}
        swept == [k \in 1..n |-> IF k \in passed THEN [c[k] EXCEPT !.second = FALSE] ELSE c[k]]
    IN [cache |-> [swept EXCEPT ![victim + 1] = [first |-> access, second |-> TRUE]],
        victim |-> victim]

ClockEviction ==
    /\ policy = "CLOCK" /\ memsize >= 1 /\ status = "running" /\ i < Len(workload)
    /\ \A k \in 1..Len(clockCache) : clockCache[k].first # Access
    /\ Len(clockCache) >= memsize
    /\ Processed

\* clockHand holds the index of the last victim (-1 before any eviction), so
\* the hand of the claim is (clockHand + 1) % memsize.
C6_ClockHandPersists ==
    [][ClockEviction =>
          LET r == HandSweep(clockCache, (clockHand + 1) % memsize, Access) IN
          /\ clockCache' = r.cache
          /\ clockHand' = r.victim]_vars

\* ---------------------------------------------------------------------
\* C7: PRP_LRU, on a miss that makes the mapping exceed memsize, removes
\* exactly one entry, the one with the minimum timestamp; and after every
\* access (memsize >= 1) the resident pages are exactly the
\* min(memsize, distinct pages seen) most recently accessed distinct pages.
\* ---------------------------------------------------------------------
LastUse(w, k, p) == Max({n \in 1..k : w[n] = p})

\* The n most recently accessed distinct pages among the first k accesses.
MostRecent(w, k, n) ==
    {p \in Seen(w, k) :
        Cardinality({q \in Seen(w, k) : LastUse(w, k, q) > LastUse(w, k, p)}) < n}

LruResident == {e.first : e \in cache}

LruOverflow ==
    /\ policy = "LRU" /\ status = "running" /\ i < Len(workload)
    /\ Access \notin LruResident
    /\ Cardinality(cache) + 1 > memsize
    /\ Processed

LruMostRecentResident ==
    (policy = "LRU" /\ memsize >= 1)
        => /\ LruResident = MostRecent(workload, i, memsize)
           /\ Cardinality(cache) = Cardinality(LruResident)
           /\ Cardinality(cache) =
                 (IF memsize < Cardinality(Seen(workload, i))
                  THEN memsize ELSE Cardinality(Seen(workload, i)))

C7_LruEvictsOldest ==
    /\ []LruMostRecentResident
    /\ [][LruOverflow =>
            LET full == cache \cup {[first |-> Access, second |-> i]} IN
            \E e \in full :
                /\ \A f \in full : e.second <= f.second
                /\ cache' = full \ {e}]_vars

C7_Witness ==
    /\ policy = "LRU" /\ memsize >= 2 /\ status = "returned"
    /\ Cardinality(Seen(workload, i)) > memsize
    /\ hits > 0

\* ---------------------------------------------------------------------
\* C8: for every policy, workload and memsize >= 0 the number of resident
\* pages never exceeds memsize after any access has been processed.
\* ---------------------------------------------------------------------
C8_ResidentWithinCapacity == ResidentCount <= memsize

\* ---------------------------------------------------------------------
\* C9: the hit count stays within 0..number of accesses processed, so the
\* returned count is within 0..Len(workload), and the counter grows by at
\* most 1 per access.
\* ---------------------------------------------------------------------
C9_HitsBounded ==
    /\ [](0 <= hits /\ hits <= i /\ i <= Len(workload))
    /\ [][hits' = hits \/ (hits' = hits + 1 /\ i' = i + 1)]_vars

C9_Witness ==
    /\ status = "returned" /\ memsize >= 1
    /\ Len(workload) >= 3 /\ hits = Len(workload) - 1

\* ---------------------------------------------------------------------
\* C10: in PRP_FIFO, for every memsize >= 0, the head index used to write a
\* slot is below the slot count, the head advance is never taken modulo 0,
\* and with memsize 0 no slot is indexed: no access raises out_of_range.
\* ---------------------------------------------------------------------
C10_FifoHeadInBounds ==
    (policy = "FIFO")
        => /\ status # "out_of_range"
           /\ (memsize >= 1 => cachedPagesHead < Len(cachedPages))

\* ---------------------------------------------------------------------
\* C11: two calls of the same evaluator with the same workload and memsize
\* return the same hit count: the count a call returns is the only count
\* the evaluator can return for these arguments.  PRP_RAND takes no seed; it
\* seeds its engine from std::time(NULL), so the indices it draws are not
\* fixed by the arguments.  (PRP_OPT is left out: the iteration order that
\* decides its victim is unspecified but fixed within one build.)
\* ---------------------------------------------------------------------
C11_SameArgumentsSameHits ==
    (status = "returned" /\ policy # "OPT")
        => \A h \in PRP_returns(policy, workload, memsize) : h = hits

\* ---------------------------------------------------------------------
\* C12: PRP_FIFO on [1,2,3,1,2,3] with memsize 2 returns 0 hits: 1 and 2
\* fill the slots, then 3 evicts 1, 1 evicts 2, 2 evicts 3 and 3 evicts 1.
\* ---------------------------------------------------------------------
FifoScenarioRun == policy = "FIFO" /\ workload = FifoScenario /\ memsize = 2

\* The slots after 0, 1, ..., 6 accesses of the scenario.
FifoScenarioSlots ==
    << <<INVALID_PAGE, INVALID_PAGE>>, <<1, INVALID_PAGE>>, <<1, 2>>,
       <<3, 2>>, <<3, 1>>, <<2, 1>>, <<2, 3>> >>

C12_FifoScenarioNoHits ==
    FifoScenarioRun
        => (~Faulted /\ hits = 0 /\ cachedPages = FifoScenarioSlots[i + 1])

C12_Witness == FifoScenarioRun /\ status = "returned" /\ hits = 0 /\ i = 6

\* ---------------------------------------------------------------------
\* C13: for every policy and every memsize >= 0 an empty workload is not an
\* error: the call can only return, and it returns 0 hits.
\* ---------------------------------------------------------------------
C13_EmptyWorkload ==
    (Len(workload) = 0)
        => /\ status \in {"running", "returned"}
           /\ hits = 0
           /\ ResidentCount = 0
           /\ (status = "running" => ENABLED Return)

C13_Witness == Len(workload) = 0 /\ memsize = 0 /\ status = "returned" /\ hits = 0

\* ---------------------------------------------------------------------
\* C14: a call with a negative capacity fails fast with an invalid-argument
\* condition: no access is processed and no hit count is returned; the
\* capacity is not taken as a large unsigned one.  (Any exception raised
\* before the first access is accepted here as failing fast.)
\* ---------------------------------------------------------------------
NegativeCapacityCall == \E c \in NegativeCapacities : memsize = ToUnsigned(c)

C14_NegativeCapacityRejected ==
    NegativeCapacityCall
        => (i = 0 /\ hits = 0 /\ status \in {"running", "invalid_argument", "bad_alloc"})

\* ---------------------------------------------------------------------
\* C15: in PRP_FIFO (memsize >= 1) a hit changes nothing but the hit
\* counter; a miss overwrites exactly the slot at the head with the accessed
\* page, leaves every other slot alone and moves the head to
\* (head + 1) mod memsize; hence, once every slot has been written, the
\* page a miss evicts is the resident page that was admitted earliest.
\* ---------------------------------------------------------------------
FifoStep ==
    policy = "FIFO" /\ memsize >= 1 /\ status = "running" /\ i < Len(workload) /\ Processed

\* The hit count of PRP_FIFO after the first k accesses of w.
FifoHitsAfter(w, k, m) ==
    LET done == PRP_loop("FIFO", {FIFO_init(m)}, SubSeq(w, 1, k), 0, m)
    IN (CHOOSE s \in done : TRUE).hits

\* The time (0-based) of the last miss on page p among the first k accesses:
\* the time p was admitted.
FifoAdmitted(w, k, m, p) ==
    Max({t \in 0..(k - 1) : w[t + 1] = p /\ FifoHitsAfter(w, t + 1, m) = FifoHitsAfter(w, t, m)})

FifoHitFrame ==
    (FifoStep /\ Access \in Range(cachedPages))
        => (hits' = hits + 1 /\ UNCHANGED <<cachedPages, cachedPagesHead>>)

FifoMissFrame ==
    (FifoStep /\ Access \notin Range(cachedPages))
        => /\ hits' = hits
           /\ cachedPages' = [cachedPages EXCEPT ![cachedPagesHead + 1] = Access]
           /\ cachedPagesHead' = (cachedPagesHead + 1) % memsize
           /\ (i - hits >= memsize)
                 => \A q \in Range(cachedPages) :
                       FifoAdmitted(workload, i, memsize, cachedPages[cachedPagesHead + 1])
                           <= FifoAdmitted(workload, i, memsize, q)

C15_FifoFrame == [][FifoHitFrame /\ FifoMissFrame]_vars

\* A miss on full slots has evicted a page after a hit was counted.
C15_Witness ==
    /\ policy = "FIFO" /\ memsize >= 2 /\ status = "running"
    /\ hits >= 1 /\ i - hits > memsize

\* ---------------------------------------------------------------------
\* C16: in PRP_CLOCK a hit sets the use bit of the entry that holds the
\* accessed page and changes nothing else: every other entry, the number
\* and order of the entries and the hand stay, and no sweep runs.
\* ---------------------------------------------------------------------
ClockHit ==
    /\ policy = "CLOCK" /\ status = "running" /\ i < Len(workload)
    /\ \E k \in 1..Len(clockCache) : clockCache[k].first = Access
    /\ Processed

C16_ClockHitFrame ==
    [][ClockHit =>
          /\ hits' = hits + 1
          /\ clockHand' = clockHand
          /\ \E k \in 1..Len(clockCache) :
                /\ clockCache[k].first = Access
                /\ clockCache' = [clockCache EXCEPT ![k].second = TRUE]]_vars

\* The access just processed hit an entry while another entry still has the
\* use bit an earlier sweep cleared.
C16_Witness ==
    /\ policy = "CLOCK" /\ status = "running" /\ i >= 1 /\ hits >= 1 /\ clockHand >= 0
    /\ \E k \in 1..Len(clockCache) : clockCache[k].first = workload[i] /\ clockCache[k].second
    /\ \E k \in 1..Len(clockCache) : ~clockCache[k].second
    /\ workload[i] \in Seen(workload, i - 1)

\* ---------------------------------------------------------------------
\* C17: in PRP_RAND (memsize >= 1), whatever the generator yields: a hit
\* changes nothing but the counter; a miss with free capacity appends the
\* page; a miss at full capacity overwrites exactly one slot, at an index in
\* [0, memsize), with the accessed page and leaves the other slots and the
\* length alone.
\* ---------------------------------------------------------------------
RandStep ==
    policy = "RAND" /\ memsize >= 1 /\ status = "running" /\ i < Len(workload) /\ Processed

C17_RandFrame ==
    [][RandStep =>
          IF Access \in Range(rand_pages_in_mem)
          THEN hits' = hits + 1 /\ rand_pages_in_mem' = rand_pages_in_mem
          ELSE /\ hits' = hits
               /\ IF Len(rand_pages_in_mem) < memsize
                  THEN rand_pages_in_mem' = Append(rand_pages_in_mem, Access)
                  ELSE /\ Len(rand_pages_in_mem') = Len(rand_pages_in_mem)
                       /\ \E index \in 0..(memsize - 1) :
                             /\ index < Len(rand_pages_in_mem)
                             /\ rand_pages_in_mem'[index + 1] = Access
                             /\ \A k \in 1..Len(rand_pages_in_mem) :
                                   k # index + 1 => rand_pages_in_mem'[k] = rand_pages_in_mem[k]]_vars

\* A hit was counted and a miss at full capacity has overwritten a slot.
C17_Witness ==
    /\ policy = "RAND" /\ memsize >= 2 /\ status = "running"
    /\ Len(rand_pages_in_mem) = memsize
    /\ hits >= 1 /\ i - hits > memsize

\* ---------------------------------------------------------------------
\* C18: for every policy, memsize >= 1 and workload over any integer page
\* ids (negative ones such as -1 included) an access to a page that did not
\* occur before is never a hit: after i accesses hits <= i - (distinct pages
\* among them); the empty-slot value INVALID_PAGE of PRP_FIFO is never taken
\* for a resident page.
\* ---------------------------------------------------------------------
C18_FirstAccessMisses ==
    (memsize >= 1) => hits <= i - Cardinality(Seen(workload, i))

\* ---------------------------------------------------------------------
\* C19: PRP_LRU has the stack property: for every workload and memsize >= 0,
\* after each access the resident set with memsize is a subset of the
\* resident set PRP_LRU has with memsize + 1 after the same accesses, and
\* the hit count with memsize + 1 is at least the one with memsize.
\* ---------------------------------------------------------------------
\* The outcomes of PRP_LRU with capacity m on the first k accesses of w.
LruAfter(w, k, m) == PRP_loop("LRU", {LRU_init}, SubSeq(w, 1, k), 0, m)

C19_LruInclusion ==
    (policy = "LRU")
        => \A s \in LruAfter(workload, i, memsize + 1) :
              /\ LruResident \subseteq {e.first : e \in s.cache}
              /\ hits <= s.hits

\* The larger cache has scored a hit the smaller one missed, after evictions.
C19_Witness ==
    /\ policy = "LRU" /\ memsize >= 1 /\ status = "returned"
    /\ Cardinality(Seen(workload, i)) > memsize + 1
    /\ \E s \in LruAfter(workload, i, memsize + 1) : hits < s.hits

\* ---------------------------------------------------------------------
\* C20: in PRP_LRU, after every access at time t, the timestamps in the
\* mapping are pairwise distinct and all <= t, and (memsize >= 1) the
\* accessed page is present with timestamp t; hence the minimum-timestamp
\* entry is unique, the eviction loop runs at most once per miss and
\* (memsize >= 1) does not evict the page just accessed.
\* ---------------------------------------------------------------------
LruTimestamps ==
    (policy = "LRU" /\ i >= 1)
        => /\ \A e \in cache : e.second <= i - 1
           /\ \A e, f \in cache : (e.second = f.second) => (e = f)
           /\ (cache # {}) => Cardinality(LRU_oldestEntry(cache)) = 1
           /\ (memsize >= 1) => [first |-> workload[i], second |-> i - 1] \in cache

LruMiss ==
    /\ policy = "LRU" /\ status = "running" /\ i < Len(workload)
    /\ Access \notin LruResident
    /\ Processed

C20_LruTimestamps ==
    /\ []LruTimestamps
    /\ [][LruMiss =>
            LET full == cache \cup {[first |-> Access, second |-> i]} IN
            /\ Cardinality(LRU_oldestEntry(full)) = 1
            /\ Cardinality(full \ cache') <= 1
            /\ (memsize >= 1) => (full \ cache') \subseteq cache]_vars

\* A miss on a full mapping has evicted an entry after a hit refreshed one.
C20_Witness ==
    /\ policy = "LRU" /\ memsize >= 2 /\ status = "running"
    /\ Cardinality(cache) = memsize
    /\ hits >= 1 /\ i - hits > memsize
    /\ workload[i] \notin Seen(workload, i - 1)
====
